---- MODULE Spec2Model ----
(***************************************************************************)
(* Corelay MVP: the transaction verification engine.                       *)
(*                                                                         *)
(* State: the in-memory store of database.js (orders, guestCodes) and the  *)
(* wall clock read by moment().valueOf().  Operations: the exported        *)
(* functions of corelay_logic.js (generateGuestPin, validateTransaction)   *)
(* and of database.js (createOrder, cleanupExpiredCodes).                  *)
(*                                                                         *)
(* A request is handled to completion, its response is delivered (Deliver), *)
(* and only then the next request is handled.                              *)
(*                                                                         *)
(* Time is counted in whole seconds (the code's millisecond values divided *)
(* by MS_PER_SECOND), so every comparison of the code keeps its shape:     *)
(*   (now - ts) / 1000 > 30        becomes   now - ts > 30                 *)
(*   expiresAt < now - 1000        becomes   expiresAt < now - 1           *)
(* Node runs each handler to completion, so an operation is one atomic     *)
(* step taken at one instant `now`.                                        *)
(***************************************************************************)
EXTENDS Integers, Sequences, FiniteSets, TLC

VARIABLES orders,      \* mockDatabase.orders      (database.js:54)
          guestCodes,  \* mockDatabase.guestCodes  (database.js:93)
          now,         \* moment().valueOf(), in seconds
          ticks,       \* number of clock advances so far
          last         \* the response in flight (Idle once delivered)

vars == <<orders, guestCodes, now, ticks, last>>

-----------------------------------------------------------------------------
(* Bounds of the model. *)

StartTime == 100
MaxTicks == 2

(* Program constants. *)

MS_PER_SECOND == 1000
OTP_VALIDITY_SECONDS == 30
GUEST_CODE_VALIDITY_MINUTES == 60
EXPIRY_TOLERANCE_MS == 1000
SECONDS_PER_MINUTE == 60
RETURN_WINDOW_DAYS == 14
SEED_WINDOW_DAYS == 13
SECONDS_PER_DAY == 86400
MIN_CODE_LENGTH == 4
MIN_ORDER_ID_LENGTH == 3
PIN_LENGTH == 6
MIN_GUEST_PIN_LENGTH == 10
MIN_QR_PARTS == 3

GuestValidity == GUEST_CODE_VALIDITY_MINUTES * SECONDS_PER_MINUTE
ExpiryTolerance == EXPIRY_TOLERANCE_MS \div MS_PER_SECOND
ReturnWindow == RETURN_WINDOW_DAYS * SECONDS_PER_DAY

NULL == -1

READY_FOR_PICKUP == "READY_FOR_PICKUP"
PICKED_UP == "PICKED_UP"
RETURN_PENDING == "RETURN_PENDING"
RETURNED_PENDING_REFUND == "RETURNED_PENDING_REFUND"
\* the statuses the HTTP handlers of server.js name
PENDING_PICKUP == "PENDING_PICKUP"
RETURNED == "RETURNED"

ORDER_STATUSES ==
  {READY_FOR_PICKUP, PICKED_UP, RETURN_PENDING, RETURNED_PENDING_REFUND}

VALID_SCANNERS == {"MODIVO", "LPP", "INPOST"}

-----------------------------------------------------------------------------
(* Input domains. *)

Wojtek == "wojtek@corelay.pl"
Anna == "anna@corelay.pl"
Users == {Wojtek, Anna}
NoUser == ""
BadUser == "wojtek"
NoCode == ""
Pins == {"111111", "222222"}
\* a well-formed PIN that generateGuestPin never draws in the model
NeverIssued == "999999"
NoTs == 0
NoOrder == "none"
NoCred == [code |-> NoCode, orderId |-> NoOrder, userId |-> NoUser,
           expiresAt |-> NULL]

BlankCode == "   "

\* the instants at which operations arrive, as offsets from the start: the
\* last instant at which a code issued at the start is still accepted, then
\* the end of the return window of a parcel picked up at the start, then one
\* second after the other
Schedule ==
  << GuestValidity + ExpiryTolerance,
     ReturnWindow - (GuestValidity + ExpiryTolerance) >>
StepSize(k) == IF k <= Len(Schedule) THEN Schedule[k] ELSE 1
Ages == {-1, 0, OTP_VALIDITY_SECONDS, OTP_VALIDITY_SECONDS + 1}

\* scan events <<userId, timestamp present, age, scannerStoreId, guestCode>>:
\* the dynamic-code events, the guest-code events and the malformed ones
ScanEvents ==
  (Users \X {TRUE} \X Ages \X VALID_SCANNERS \X {NoCode})
  \cup (Users \X {TRUE} \X {0, OTP_VALIDITY_SECONDS + 1} \X VALID_SCANNERS
          \X Pins)
  \cup ({NoUser} \X {TRUE} \X {0} \X {"MODIVO"} \X {NoCode, "111111"})
  \cup ({Wojtek} \X {FALSE} \X {0} \X {"MODIVO"} \X {NoCode, "111111"})
  \cup ({Wojtek} \X {TRUE} \X {0} \X {"ZARA"} \X {NoCode, "111111"})
  \cup ({Wojtek} \X {TRUE} \X {0} \X {"MODIVO"} \X {BlankCode})
  \cup ({BadUser} \X {TRUE} \X {0, OTP_VALIDITY_SECONDS + 1} \X {"MODIVO"}
          \X {NoCode})

NewOrders ==
  ({Wojtek, Anna} \X {"ORD-1004"} \X {"MODIVO"}
     \X {READY_FOR_PICKUP, PICKED_UP, RETURN_PENDING})
  \cup {<<Anna, "ORD-1001", "MODIVO", READY_FOR_PICKUP>>,
        <<Anna, "ORD-1004", "ZARA", READY_FOR_PICKUP>>,
        <<Anna, "ORD-1004", "MODIVO", "PENDING_PICKUP">>}
\* requests <<userId, orderId>> handed to generateGuestPin: the owner for his
\* orders, a user who does not own the order, and a malformed userId
IssueRequests ==
  {<<Wojtek, "ORD-1001">>, <<Wojtek, "ORD-1002">>, <<Anna, "ORD-1002">>,
   <<BadUser, "ORD-1001">>}

\* requests <<userId, orderId>> of two users, each for an order of his own
OwnerRequests == {<<Wojtek, "ORD-1002">>, <<Anna, "ORD-1004">>}

\* QR strings a scanner posts as guestPin: three of four parts naming the user
\* in the fourth, one in the format the route's documentation shows, and one
\* of two parts
QrFull1 == "QR|ORD-1001|T|wojtek@corelay.pl"
QrFull3 == "QR|ORD-1003|T|wojtek@corelay.pl"
QrFull4 == "QR|ORD-1004|T|wojtek@corelay.pl"
QrDoc == "QR_DATA:ORD-1001|USER:wojtek@corelay.pl|TOKEN:1"
QrShort == "QR_DATA|ORD-1001"
QrCodes == {QrFull1, QrFull3, QrFull4, QrDoc, QrShort}

\* credentials <<code, orderId, userId>> handed to DB.addGuestCode
StoredCredentials ==
  {<<QrFull1, "ORD-1001", Wojtek>>, <<QrFull3, "ORD-1001", Wojtek>>,
   <<QrFull4, "ORD-1002", Wojtek>>, <<"123", "ORD-1003", Wojtek>>}

\* request bodies <<userId, timestamp present, scannerId, guestPin>> posted to
\* /api/verify_transaction
HttpScans ==
  ({Wojtek, Anna} \X {TRUE} \X {"MODIVO", "LPP"} \X (QrCodes \cup {"111111"}))
  \cup {<<Wojtek, FALSE, "MODIVO", QrFull1>>,
        <<Wojtek, TRUE, "ZARA", QrFull1>>}

-----------------------------------------------------------------------------
(* JavaScript helpers. *)

\* null in a relational comparison is coerced to 0
Num(x) == IF x = NULL THEN 0 ELSE x

\* String.prototype.includes('@') on the identifiers the model uses
IncludesAt(s) == s \in {Wojtek, Anna}

\* String.prototype.length on the identifiers the model uses
StrLen(s) ==
  IF s = "" THEN 0
  ELSE IF s \in Pins THEN PIN_LENGTH
  ELSE IF s \in {"ORD-1001", "ORD-1002", "ORD-1003", "ORD-1004"} THEN 8
  ELSE IF s = "123" THEN 3
  ELSE IF s \in {QrFull1, QrFull3, QrFull4} THEN 31
  ELSE IF s = QrDoc THEN 47
  ELSE IF s = QrShort THEN 16
  ELSE 6

\* String.prototype.split('|') on the codes the model uses
Split(s) ==
  IF s = QrFull1 THEN <<"QR", "ORD-1001", "T", Wojtek>>
  ELSE IF s = QrFull3 THEN <<"QR", "ORD-1003", "T", Wojtek>>
  ELSE IF s = QrFull4 THEN <<"QR", "ORD-1004", "T", Wojtek>>
  ELSE IF s = QrDoc
  THEN <<"QR_DATA:ORD-1001", "USER:wojtek@corelay.pl", "TOKEN:1">>
  ELSE IF s = QrShort THEN <<"QR_DATA", "ORD-1001">>
  ELSE <<s>>

\* String.prototype.trim on the codes the model uses
Trim(s) == IF s = BlankCode THEN "" ELSE s

\* the last matching position instead of the first
FindLastIndex(hits) ==
  IF hits = {} THEN 0 ELSE CHOOSE i \in hits : \A j \in hits : i >= j

\* Array.prototype.find / findIndex over the positions (1-based) at which the
\* callback holds: the first of them, 0 when nothing matches
FindIndex(hits) ==
  IF hits = {} THEN 0 ELSE CHOOSE i \in hits : \A j \in hits : i <= j

\* the indices 1..Len(s), as a sequence
Indices(s) == [i \in 1..Len(s) |-> i]

-----------------------------------------------------------------------------
(* database.js: the DB object. *)

\* DB.getOrdersByUser without the filter on the owner
getOrdersOfAnyUser(ords, userId) ==
  IF userId = NoUser \/ ~IncludesAt(userId)
  THEN [ok |-> FALSE, refs |-> <<>>]
  ELSE [ok |-> TRUE, refs |-> Indices(ords)]

\* DB.getOrdersByUser: the references (indices into orders) of the user's
\* orders, in insertion order; throws on a userId that is no email
getOrdersByUser(ords, userId) ==
  IF userId = NoUser \/ ~IncludesAt(userId)
  THEN [ok |-> FALSE, refs |-> <<>>]
  ELSE [ok |-> TRUE,
        refs |-> SelectSeq(Indices(ords), LAMBDA i : ords[i].userId = userId)]

\* DB.updateOrderStatus that reports success without writing to the store
updateOrderStatusNoWrite(ords, orderId, newStatus, t) ==
  LET orderIndex == FindIndex({i \in DOMAIN ords : ords[i].orderId = orderId})
  IN  IF StrLen(orderId) < MIN_ORDER_ID_LENGTH \/ newStatus \notin ORDER_STATUSES
         \/ orderIndex = 0
      THEN [ok |-> FALSE, orders |-> ords]
      ELSE [ok |-> TRUE, orders |-> ords]

\* DB.updateOrderStatus: writes status (and maxTime) of the first order that
\* carries orderId; throws on a short id, an unknown status, a missing order
updateOrderStatus(ords, orderId, newStatus, t) ==
  LET orderIndex == FindIndex({i \in DOMAIN ords : ords[i].orderId = orderId})
  IN  IF StrLen(orderId) < MIN_ORDER_ID_LENGTH \/ newStatus \notin ORDER_STATUSES
         \/ orderIndex = 0
      THEN [ok |-> FALSE, orders |-> ords]
      ELSE [ok |-> TRUE,
            orders |->
              [ords EXCEPT ![orderIndex] =
                 [@ EXCEPT !.status = newStatus,
                           !.maxTime =
                             IF newStatus = PICKED_UP THEN t + ReturnWindow
                             ELSE IF newStatus \in {RETURN_PENDING,
                                                    RETURNED_PENDING_REFUND}
                                  THEN NULL
                                  ELSE @]]]

\* DB.removeGuestCode: drops every credential bound to orderId
removeGuestCode(codes, orderId) ==
  SelectSeq(codes, LAMBDA c : c.orderId # orderId)

\* DB.addGuestCode without the removal of the order's previous credential
addGuestCodeNoSupersede(codes, code, orderId, expiresAt, userId, t) ==
  IF code = NoCode \/ StrLen(code) < MIN_CODE_LENGTH
     \/ orderId = NoOrder \/ userId = NoUser
     \/ expiresAt <= t
  THEN [ok |-> FALSE, guestCodes |-> codes]
  ELSE [ok |-> TRUE,
        guestCodes |->
          Append(codes,
                 [code |-> code, orderId |-> orderId, userId |-> userId,
                  expiresAt |-> expiresAt])]

\* DB.addGuestCode that drops the order's credential before it validates
addGuestCodeRemoveFirst(codes, code, orderId, expiresAt, userId, t) ==
  IF code = NoCode \/ StrLen(code) < MIN_CODE_LENGTH
     \/ orderId = NoOrder \/ userId = NoUser
     \/ expiresAt <= t
  THEN [ok |-> FALSE, guestCodes |-> removeGuestCode(codes, orderId)]
  ELSE [ok |-> TRUE,
        guestCodes |->
          Append(removeGuestCode(codes, orderId),
                 [code |-> code, orderId |-> orderId, userId |-> userId,
                  expiresAt |-> expiresAt])]

\* DB.addGuestCode: supersede-then-insert; throws on bad parameters
addGuestCode(codes, code, orderId, expiresAt, userId, t) ==
  IF code = NoCode \/ StrLen(code) < MIN_CODE_LENGTH
     \/ orderId = NoOrder \/ userId = NoUser
     \/ expiresAt <= t
  THEN [ok |-> FALSE, guestCodes |-> codes]
  ELSE [ok |-> TRUE,
        guestCodes |->
          Append(removeGuestCode(codes, orderId),
                 [code |-> code, orderId |-> orderId, userId |-> userId,
                  expiresAt |-> expiresAt])]

\* DB.validateGuestCode whose expiry branch leaves the credential in place
validateGuestCodeKeepExpired(codes, code, t) ==
  LET idx == FindIndex({i \in DOMAIN codes : codes[i].code = Trim(code)})
  IN  IF code = NoCode
      THEN [kind |-> "badcode", entry |-> NoCred, guestCodes |-> codes]
      ELSE IF idx = 0
      THEN [kind |-> "notfound", entry |-> NoCred, guestCodes |-> codes]
      ELSE IF codes[idx].expiresAt < t - ExpiryTolerance
      THEN [kind |-> "expired", entry |-> codes[idx], guestCodes |-> codes]
      ELSE [kind |-> "ok", entry |-> codes[idx],
            guestCodes |-> removeGuestCode(codes, codes[idx].orderId)]

\* DB.validateGuestCode without the one-second tolerance
validateGuestCodeNoTolerance(codes, code, t) ==
  LET idx == FindIndex({i \in DOMAIN codes : codes[i].code = Trim(code)})
  IN  IF code = NoCode
      THEN [kind |-> "badcode", entry |-> NoCred, guestCodes |-> codes]
      ELSE IF idx = 0
      THEN [kind |-> "notfound", entry |-> NoCred, guestCodes |-> codes]
      ELSE IF codes[idx].expiresAt < t
      THEN [kind |-> "expired", entry |-> codes[idx],
            guestCodes |-> removeGuestCode(codes, codes[idx].orderId)]
      ELSE [kind |-> "ok", entry |-> codes[idx],
            guestCodes |-> removeGuestCode(codes, codes[idx].orderId)]

\* DB.validateGuestCode: lookup by code, then removal of the order's
\* credential.  kind: "ok" (entry returned), "notfound" (throws 404),
\* "expired" (removed, throws 400), "badcode" (throws 400)
validateGuestCode(codes, code, t) ==
  LET idx == FindIndex({i \in DOMAIN codes : codes[i].code = Trim(code)})
  IN  IF code = NoCode
      THEN [kind |-> "badcode", entry |-> NoCred, guestCodes |-> codes]
      ELSE IF idx = 0
      THEN [kind |-> "notfound", entry |-> NoCred, guestCodes |-> codes]
      ELSE IF codes[idx].expiresAt < t - ExpiryTolerance
      THEN [kind |-> "expired", entry |-> codes[idx],
            guestCodes |-> removeGuestCode(codes, codes[idx].orderId)]
      ELSE [kind |-> "ok", entry |-> codes[idx],
            guestCodes |-> removeGuestCode(codes, codes[idx].orderId)]

\* DB.cleanupExpiredCodes: keeps the credentials with expiresAt > now
cleanupExpiredCodes(codes, t) ==
  SelectSeq(codes, LAMBDA c : c.expiresAt > t)

\* DB.createOrder without the duplicate test
createOrderNoDuplicateTest(ords, userId, orderId, storeId, status, t) ==
  IF userId = NoUser \/ orderId = NoOrder
     \/ storeId \notin VALID_SCANNERS
     \/ status \notin {READY_FOR_PICKUP, PICKED_UP, RETURN_PENDING}
  THEN [ok |-> FALSE, orders |-> ords]
  ELSE [ok |-> TRUE,
        orders |->
          Append(ords,
                 [userId |-> userId, orderId |-> orderId, storeId |-> storeId,
                  status |-> status,
                  maxTime |-> IF status = PICKED_UP THEN t + ReturnWindow
                              ELSE NULL])]

\* DB.createOrder: validation, then push; ok = FALSE when it throws
createOrder(ords, userId, orderId, storeId, status, t) ==
  IF userId = NoUser \/ orderId = NoOrder
     \/ storeId \notin VALID_SCANNERS
     \/ (\E i \in DOMAIN ords : ords[i].orderId = orderId)
     \/ status \notin {READY_FOR_PICKUP, PICKED_UP, RETURN_PENDING}
  THEN [ok |-> FALSE, orders |-> ords]
  ELSE [ok |-> TRUE,
        orders |->
          Append(ords,
                 [userId |-> userId, orderId |-> orderId, storeId |-> storeId,
                  status |-> status,
                  maxTime |-> IF status = PICKED_UP THEN t + ReturnWindow
                              ELSE NULL])]

-----------------------------------------------------------------------------
(* corelay_logic.js: the CorelayLogic object. *)

\* the value a verification hands back: kind is "success" or "fail" for a
\* returned result object (success true / false) and "throw" for an ApiError
Outcome(kind, ttype, msg, orderId, ords, codes, found) ==
  [kind |-> kind, ttype |-> ttype, msg |-> msg, orderId |-> orderId,
   orders |-> ords, guestCodes |-> codes, found |-> found]

\* the return-window check left out
WindowNeverExpired(order, t) == FALSE

\* the return-window check of _finalizeTransaction
WindowExpired(order, t) == Num(order.maxTime) < t

\* an order in any other status raised as an error
unknownStatusThrows(ords, codes, found) ==
  Outcome("throw", "none", "db_error", NoOrder, ords, codes, found)

\* the last branch of _finalizeTransaction: an order that is neither
\* READY_FOR_PICKUP nor PICKED_UP gives a failure result
unknownStatus(ords, codes, found) ==
  Outcome("fail", "none", "unknown_status", NoOrder, ords, codes, found)

\* _finalizeTransaction that writes the return before it checks the window
finalizeTransactionWriteFirst(ords, codes, ref, found, t) ==
  IF ref = 0
  THEN Outcome("throw", "none", "bad_order", NoOrder, ords, codes, found)
  ELSE
    LET order == ords[ref] IN
    IF order.status = READY_FOR_PICKUP
    THEN LET u == updateOrderStatus(ords, order.orderId, PICKED_UP, t) IN
         IF ~u.ok
         THEN Outcome("throw", "none", "db_error", NoOrder, ords, codes, found)
         ELSE Outcome("success", "PICKUP", "picked_up", order.orderId,
                      [u.orders EXCEPT ![ref].maxTime = t + ReturnWindow],
                      codes, found)
    ELSE IF order.status = PICKED_UP
    THEN LET u == updateOrderStatus(ords, order.orderId,
                                    RETURNED_PENDING_REFUND, t) IN
         IF ~u.ok
         THEN Outcome("throw", "none", "db_error", NoOrder, ords, codes, found)
         ELSE IF WindowExpired(order, t)
         THEN Outcome("fail", "none", "window_expired", NoOrder, u.orders,
                      codes, found)
         ELSE Outcome("success", "RETURN", "returned", order.orderId,
                      u.orders, codes, found)
    ELSE unknownStatus(ords, codes, found)

\* CorelayLogic._finalizeTransaction on the order object orders[ref]
\* (ref = 0: the caller passed undefined)
finalizeTransaction(ords, codes, ref, found, t) ==
  IF ref = 0
  THEN Outcome("throw", "none", "bad_order", NoOrder, ords, codes, found)
  ELSE
    LET order == ords[ref] IN
    IF order.status = READY_FOR_PICKUP
    THEN LET u == updateOrderStatus(ords, order.orderId, PICKED_UP, t) IN
         IF ~u.ok
         THEN Outcome("throw", "none", "db_error", NoOrder, ords, codes, found)
         ELSE Outcome("success", "PICKUP", "picked_up", order.orderId,
                      [u.orders EXCEPT ![ref].maxTime = t + ReturnWindow],
                      codes, found)
    ELSE IF order.status = PICKED_UP
    THEN IF WindowExpired(order, t)
         THEN Outcome("fail", "none", "window_expired", NoOrder, ords, codes,
                      found)
         ELSE LET u == updateOrderStatus(ords, order.orderId,
                                         RETURNED_PENDING_REFUND, t) IN
              IF ~u.ok
              THEN Outcome("throw", "none", "db_error", NoOrder, ords, codes,
                           found)
              ELSE Outcome("success", "RETURN", "returned", order.orderId,
                           u.orders, codes, found)
    ELSE unknownStatus(ords, codes, found)

\* the order-selection predicate of validateTransaction (find callback)
Matches(order, scannerStoreId, t) ==
  \/ order.status = READY_FOR_PICKUP /\ order.storeId = scannerStoreId
  \/ order.status = PICKED_UP /\ Num(order.maxTime) > t

\* step 1 of validateTransaction: the guest code (PIN/QR) path; every
\* exception raised inside its try block is rethrown as one ApiError 500
guestPath(ords, codes, scannerStoreId, code, t) ==
  LET v == validateGuestCode(codes, Trim(code), t) IN
  IF v.kind # "ok"
  THEN Outcome("throw", "none", "guest_error", NoOrder, ords, v.guestCodes,
               v.entry)
  ELSE IF v.entry.expiresAt < t - ExpiryTolerance
  THEN Outcome("fail", "none", "guest_expired", NoOrder, ords, v.guestCodes,
               v.entry)
  ELSE
    LET g == getOrdersByUser(ords, v.entry.userId) IN
    IF ~g.ok
    THEN Outcome("throw", "none", "guest_error", NoOrder, ords, v.guestCodes,
                 v.entry)
    ELSE
      LET k == FindIndex({i \in DOMAIN g.refs :
                            ords[g.refs[i]].orderId = v.entry.orderId})
      IN  IF k = 0
          THEN Outcome("fail", "none", "order_missing", NoOrder, ords,
                       v.guestCodes, v.entry)
          ELSE LET f == finalizeTransaction(ords, v.guestCodes, g.refs[k],
                                            v.entry, t)
               IN  IF f.kind = "throw"
                   THEN [f EXCEPT !.msg = "guest_error"]
                   ELSE f

\* the freshness checks of validateTransaction on the age of the timestamp
IsStale(ageSeconds) == ageSeconds > OTP_VALIDITY_SECONDS

\* validateTransaction without the check for a timestamp in the future
NoFutureCheck(ageSeconds) == FALSE

IsFuture(ageSeconds) == ageSeconds < 0

\* a dynamic code path that drops the credential of the order it advances
dynamicPathDropsCredential(ords, codes, scannedUserId, tsMs, scannerStoreId, t) ==
  LET ageSeconds == t - tsMs IN
  IF IsStale(ageSeconds)
  THEN Outcome("fail", "none", "stale", NoOrder, ords, codes, NoCred)
  ELSE IF IsFuture(ageSeconds)
  THEN Outcome("fail", "none", "future", NoOrder, ords, codes, NoCred)
  ELSE
    LET g == getOrdersByUser(ords, scannedUserId) IN
    IF ~g.ok
    THEN Outcome("throw", "none", "bad_email", NoOrder, ords, codes, NoCred)
    ELSE IF Len(g.refs) = 0
    THEN Outcome("fail", "none", "no_orders", NoOrder, ords, codes, NoCred)
    ELSE
      LET k == FindIndex({i \in DOMAIN g.refs :
                            Matches(ords[g.refs[i]], scannerStoreId, t)})
      IN  IF k = 0
          THEN Outcome("fail", "none", "no_match", NoOrder, ords, codes,
                       NoCred)
          ELSE finalizeTransaction(ords,
                                   removeGuestCode(codes,
                                                   ords[g.refs[k]].orderId),
                                   g.refs[k], NoCred, t)

\* steps 2-4 of validateTransaction: the dynamic code path
dynamicPath(ords, codes, scannedUserId, tsMs, scannerStoreId, t) ==
  LET ageSeconds == t - tsMs IN
  IF IsStale(ageSeconds)
  THEN Outcome("fail", "none", "stale", NoOrder, ords, codes, NoCred)
  ELSE IF IsFuture(ageSeconds)
  THEN Outcome("fail", "none", "future", NoOrder, ords, codes, NoCred)
  ELSE
    LET g == getOrdersByUser(ords, scannedUserId) IN
    IF ~g.ok
    THEN Outcome("throw", "none", "bad_email", NoOrder, ords, codes, NoCred)
    ELSE IF Len(g.refs) = 0
    THEN Outcome("fail", "none", "no_orders", NoOrder, ords, codes, NoCred)
    ELSE
      LET k == FindIndex({i \in DOMAIN g.refs :
                            Matches(ords[g.refs[i]], scannerStoreId, t)})
      IN  IF k = 0
          THEN Outcome("fail", "none", "no_match", NoOrder, ords, codes,
                       NoCred)
          ELSE finalizeTransaction(ords, codes, g.refs[k], NoCred, t)

\* CorelayLogic.validateTransaction
validateTransaction(ords, codes, scannedUserId, scannedTimestamp, scannerStoreId, scannedGuestCode, t) ==
  IF scannedUserId = NoUser
  THEN Outcome("throw", "none", "no_user", NoOrder, ords, codes, NoCred)
  ELSE IF scannedTimestamp = NoTs
  THEN Outcome("throw", "none", "no_timestamp", NoOrder, ords, codes, NoCred)
  ELSE IF scannerStoreId \notin VALID_SCANNERS
  THEN Outcome("throw", "none", "bad_scanner", NoOrder, ords, codes, NoCred)
  ELSE IF scannedGuestCode # NoCode /\ Trim(scannedGuestCode) # NoCode
  THEN guestPath(ords, codes, scannerStoreId, scannedGuestCode, t)
  ELSE dynamicPath(ords, codes, scannedUserId, scannedTimestamp,
                   scannerStoreId, t)

\* generateGuestPin that drops the order's credential before it validates
generateGuestPinRemoveFirst(codes, userId, orderId, pin, t) ==
  IF userId = NoUser \/ ~IncludesAt(userId)
  THEN [ok |-> FALSE, guestCodes |-> removeGuestCode(codes, orderId)]
  ELSE IF orderId = NoOrder \/ StrLen(orderId) < MIN_ORDER_ID_LENGTH
  THEN [ok |-> FALSE, guestCodes |-> removeGuestCode(codes, orderId)]
  ELSE addGuestCode(codes, pin, orderId, t + GuestValidity, userId, t)

\* CorelayLogic.generateGuestPin with the PIN the generator drew
generateGuestPin(codes, userId, orderId, pin, t) ==
  IF userId = NoUser \/ ~IncludesAt(userId)
  THEN [ok |-> FALSE, guestCodes |-> codes]
  ELSE IF orderId = NoOrder \/ StrLen(orderId) < MIN_ORDER_ID_LENGTH
  THEN [ok |-> FALSE, guestCodes |-> codes]
  ELSE addGuestCode(codes, pin, orderId, t + GuestValidity, userId, t)

-----------------------------------------------------------------------------
(* The state machine. *)

\* the seeded store of database.js, read at process start
SeedOrders ==
  << [userId |-> Wojtek, orderId |-> "ORD-1001", storeId |-> "MODIVO",
      status |-> READY_FOR_PICKUP, maxTime |-> NULL],
     [userId |-> Wojtek, orderId |-> "ORD-1002", storeId |-> "LPP",
      status |-> PICKED_UP,
      maxTime |-> StartTime + SEED_WINDOW_DAYS * SECONDS_PER_DAY],
     [userId |-> Wojtek, orderId |-> "ORD-1003", storeId |-> "INPOST",
      status |-> READY_FOR_PICKUP, maxTime |-> NULL] >>

\* what an operation handed back.  A successful verification returns the
\* response object of _finalizeTransaction (transactionType, orderId, userId,
\* type, scanner); a failed one returns only its message.  found is the
\* credential the call took out of the store: the one a verification
\* consumed, or the one an issuance superseded
Result(op, kind, ttype, msg, orderId, userId, type, scanner, found) ==
  [op |-> op, kind |-> kind, ttype |-> ttype, msg |-> msg,
   orderId |-> orderId, userId |-> userId, type |-> type,
   scanner |-> scanner, found |-> found]

Plain(op, kind, msg, found) ==
  Result(op, kind, "none", msg, NoOrder, NoUser, "none", "", found)

Idle == Plain("idle", "none", "", NoCred)

\* the owner of the order a successful verification advanced
OwnerOf(ords, orderId) ==
  LET k == FindIndex({i \in DOMAIN ords : ords[i].orderId = orderId})
  IN  IF k = 0 THEN NoUser ELSE ords[k].userId

\* the timestamp a scan event presents at instant t
TsOf(ev, t) == IF ev[2] THEN t - ev[3] ELSE NoTs

\* the authentication path a scan event selects
TypeOf(code) ==
  IF code # NoCode /\ Trim(code) # NoCode THEN "GUEST_PIN" ELSE "DYNAMIC_CODE"

\* CorelayLogic.validateTransaction applied to a scan event
Verify(ords, codes, ev, t) ==
  validateTransaction(ords, codes, ev[1], TsOf(ev, t), ev[4], ev[5], t)

\* the credential stored for orderId, NoCred when there is none
CredentialOf(codes, orderId) ==
  LET k == FindIndex({i \in DOMAIN codes : codes[i].orderId = orderId})
  IN  IF k = 0 THEN NoCred ELSE codes[k]

Init ==
  /\ orders = SeedOrders
  /\ guestCodes = cleanupExpiredCodes(<<>>, StartTime)
  /\ now = StartTime
  /\ ticks = 0
  /\ last = Idle

\* the wall clock advances to the next instant of the schedule
Tick ==
  /\ last = Idle
  /\ ticks < MaxTicks
  /\ now' = now + StepSize(ticks + 1)
  /\ ticks' = ticks + 1
  /\ UNCHANGED <<orders, guestCodes, last>>

\* the response in flight reaches the caller
Deliver ==
  /\ last # Idle
  /\ last' = Idle
  /\ UNCHANGED <<orders, guestCodes, now, ticks>>

\* one scan event handed to CorelayLogic.validateTransaction
ValidateTransaction ==
  \E ev \in ScanEvents :
    LET r == Verify(orders, guestCodes, ev, now)
    IN  /\ last = Idle
        /\ orders' = r.orders
        /\ guestCodes' = r.guestCodes
        /\ last' =
             IF r.kind = "success"
             THEN Result("verify", r.kind, r.ttype, r.msg, r.orderId,
                         OwnerOf(orders, r.orderId), TypeOf(ev[5]), ev[4],
                         r.found)
             ELSE Result("verify", r.kind, "none", r.msg, NoOrder, NoUser,
                         TypeOf(ev[5]), "", r.found)
        /\ UNCHANGED <<now, ticks>>

\* an issuance that also marks the order as RETURN_PENDING
GenerateGuestPinMarksOrder ==
  \E q \in IssueRequests, pin \in Pins :
    LET r == generateGuestPin(guestCodes, q[1], q[2], pin, now)
        u == updateOrderStatus(orders, q[2], RETURN_PENDING, now)
    IN  /\ last = Idle
        /\ guestCodes' = r.guestCodes
        /\ orders' = IF r.ok /\ u.ok THEN u.orders ELSE orders
        /\ last' = IF r.ok
                   THEN Plain("issue", "success", pin,
                              CredentialOf(guestCodes, q[2]))
                   ELSE Plain("issue", "throw", "", NoCred)
        /\ UNCHANGED <<now, ticks>>

\* one return-initiation request handed to CorelayLogic.generateGuestPin
GenerateGuestPin ==
  \E q \in IssueRequests, pin \in Pins :
    LET r == generateGuestPin(guestCodes, q[1], q[2], pin, now)
    IN  /\ last = Idle
        /\ guestCodes' = r.guestCodes
        /\ last' = IF r.ok
                   THEN Plain("issue", "success", pin,
                              CredentialOf(guestCodes, q[2]))
                   ELSE Plain("issue", "throw", "", NoCred)
        /\ UNCHANGED <<orders, now, ticks>>

\* one order handed to DB.createOrder
CreateOrder ==
  \E n \in NewOrders :
    LET r == createOrder(orders, n[1], n[2], n[3], n[4], now)
    IN  /\ last = Idle
        /\ orders' = r.orders
        /\ last' = IF r.ok THEN Plain("create", "success", n[2], NoCred)
                   ELSE Plain("create", "throw", "", NoCred)
        /\ UNCHANGED <<guestCodes, now, ticks>>

\* the housekeeping call DB.cleanupExpiredCodes
CleanupExpiredCodes ==
  /\ last = Idle
  /\ guestCodes' = cleanupExpiredCodes(guestCodes, now)
  /\ last' = Plain("cleanup", "success", "", NoCred)
  /\ UNCHANGED <<orders, now, ticks>>

\* orders: the seeded store, new orders and scans, no guest codes
NextOrders ==
  \/ Tick
  \/ Deliver
  \/ ValidateTransaction
  \/ CreateOrder

SpecOrders == Init /\ [][NextOrders]_vars

\* codes: the seeded store, issuance, scans and cleanup
NextCodes ==
  \/ Tick
  \/ Deliver
  \/ ValidateTransaction
  \/ GenerateGuestPin
  \/ CleanupExpiredCodes

SpecCodes == Init /\ [][NextCodes]_vars

-----------------------------------------------------------------------------
(* server.js: the route POST /api/verify_transaction. *)

\* what the route leaves and answers: the HTTP status, the store, and the
\* result of CorelayLogic.validateTransaction when it was called
Answer(status, msg, ords, codes, v) ==
  [status |-> status, msg |-> msg, orders |-> ords, guestCodes |-> codes,
   v |-> v]

NotCalled == Outcome("none", "none", "", NoOrder, <<>>, <<>>, NoCred)

\* the handler of POST /api/verify_transaction: schema validation, parsing
\* of the QR string, CorelayLogic.validateTransaction, then the handler's own
\* write of order.status on the order the QR string names
postVerifyTransaction(ords, codes, userId, hasTs, scannerId, guestPin, t) ==
  LET parts == Split(guestPin)
      orderId == IF Len(parts) >= 2 THEN parts[2] ELSE NoOrder
      expectedUser == IF Len(parts) >= 4 THEN parts[4] ELSE NoUser
      v == validateTransaction(ords, codes, userId, IF hasTs THEN t ELSE NoTs,
                               scannerId, guestPin, t)
      g == getOrdersByUser(v.orders, userId)
      k == FindIndex({i \in DOMAIN g.refs :
                        v.orders[g.refs[i]].orderId = orderId})
  IN  IF ~IncludesAt(userId) \/ ~hasTs \/ scannerId \notin VALID_SCANNERS
         \/ StrLen(guestPin) < MIN_GUEST_PIN_LENGTH
      THEN Answer(400, "bad_request", ords, codes, NotCalled)
      ELSE IF Len(parts) < MIN_QR_PARTS
      THEN Answer(400, "bad_format", ords, codes, NotCalled)
      ELSE IF expectedUser # userId
      THEN Answer(400, "user_mismatch", ords, codes, NotCalled)
      ELSE IF v.kind = "throw"
      THEN Answer(500, "verify_error", v.orders, v.guestCodes, v)
      ELSE IF v.kind = "fail"
      THEN Answer(400, "verify_failed", v.orders, v.guestCodes, v)
      ELSE IF ~g.ok
      THEN Answer(500, "verify_error", v.orders, v.guestCodes, v)
      ELSE IF k = 0
      THEN Answer(404, "order_missing", v.orders, v.guestCodes, v)
      ELSE Answer(200, "verified",
                  [v.orders EXCEPT ![g.refs[k]].status =
                     IF @ = PENDING_PICKUP THEN PICKED_UP ELSE RETURNED],
                  v.guestCodes, v)

\* one request posted to /api/verify_transaction
PostVerifyTransaction ==
  \E q \in HttpScans :
    LET a == postVerifyTransaction(orders, guestCodes, q[1], q[2], q[3], q[4],
                                   now)
    IN  /\ last = Idle
        /\ orders' = a.orders
        /\ guestCodes' = a.guestCodes
        /\ last' = Result("post_verify",
                          IF a.status = 200 THEN "success" ELSE "error",
                          a.v.ttype, a.msg, a.v.orderId, q[1],
                          TypeOf(q[4]), q[3], a.v.found)
        /\ UNCHANGED <<now, ticks>>

\* one credential handed to DB.addGuestCode, valid for the guest window
AddGuestCode ==
  \E c \in StoredCredentials :
    LET r == addGuestCode(guestCodes, c[1], c[2], now + GuestValidity, c[3],
                          now)
    IN  /\ last = Idle
        /\ guestCodes' = r.guestCodes
        /\ last' = IF r.ok
                   THEN Plain("add", "success", c[1],
                              CredentialOf(guestCodes, c[2]))
                   ELSE Plain("add", "throw", "", NoCred)
        /\ UNCHANGED <<orders, now, ticks>>

\* the HTTP route over the store: stored credentials and posted scans
NextHttp ==
  \/ Tick
  \/ Deliver
  \/ AddGuestCode
  \/ PostVerifyTransaction

SpecHttp == Init /\ [][NextHttp]_vars

\* one return-initiation request of an owner handed to
\* CorelayLogic.generateGuestPin
GenerateOwnerPin ==
  \E q \in OwnerRequests, pin \in Pins :
    LET r == generateGuestPin(guestCodes, q[1], q[2], pin, now)
    IN  /\ last = Idle
        /\ guestCodes' = r.guestCodes
        /\ last' = IF r.ok
                   THEN Plain("issue", "success", pin,
                              CredentialOf(guestCodes, q[2]))
                   ELSE Plain("issue", "throw", "", NoCred)
        /\ UNCHANGED <<orders, now, ticks>>

\* two users: new orders, issuance to owners and scans at one instant
NextUsers ==
  \/ Deliver
  \/ CreateOrder
  \/ GenerateOwnerPin
  \/ ValidateTransaction

SpecUsers == Init /\ [][NextUsers]_vars

-----------------------------------------------------------------------------
(* Properties.  A property about one call is stated on the store the call   *)
(* runs against: Verify gives what validateTransaction hands back there.    *)

\* ages of a presented timestamp inside the validity window
FreshAges == {0, OTP_VALIDITY_SECONDS}

\* the dynamic-code scan by userId at scannerStoreId with the given age
DynamicScan(userId, age, scannerStoreId) ==
  validateTransaction(orders, guestCodes, userId, now - age, scannerStoreId,
                      NoCode, now)

\* C1: every order that is READY_FOR_PICKUP is picked up by a fresh
\* dynamic-code scan of its owner at the order's own store: the scan returns
\* success with type PICKUP for that order and leaves it PICKED_UP with
\* maxTime = pickup instant + 14 days.
C1_PickupOfEveryReadyOrder ==
  \A i \in DOMAIN orders :
    orders[i].status = READY_FOR_PICKUP =>
      \A age \in FreshAges :
        LET r == DynamicScan(orders[i].userId, age, orders[i].storeId)
        IN  /\ r.kind = "success"
            /\ r.ttype = "PICKUP"
            /\ r.orderId = orders[i].orderId
            /\ r.orders[i].status = PICKED_UP
            /\ r.orders[i].maxTime = now + ReturnWindow

\* C2: every order that is PICKED_UP with maxTime > now is returned by a
\* fresh dynamic-code scan of its owner at any store: the scan returns success
\* with type RETURN for that order and leaves it RETURNED_PENDING_REFUND.
C2_ReturnOfEveryOpenOrder ==
  \A i \in DOMAIN orders :
    (orders[i].status = PICKED_UP /\ Num(orders[i].maxTime) > now) =>
      \A age \in FreshAges, store \in VALID_SCANNERS :
        LET r == DynamicScan(orders[i].userId, age, store)
        IN  /\ r.kind = "success"
            /\ r.ttype = "RETURN"
            /\ r.orderId = orders[i].orderId
            /\ r.orders[i].status = RETURNED_PENDING_REFUND

\* a well-formed dynamic-code scan event: user, timestamp and a known scanner
\* are present and no guest code is
WellFormedDynamic(ev) ==
  /\ ev[1] # NoUser
  /\ ev[2]
  /\ ev[4] \in VALID_SCANNERS
  /\ TypeOf(ev[5]) = "DYNAMIC_CODE"

\* C3: a dynamic-code scan whose timestamp is older than 30 seconds, or lies
\* in the future, is answered with a failure result in every reachable store,
\* whatever orders the user owns, and changes nothing.
C3_StaleOrFutureScanFails ==
  \A ev \in ScanEvents :
    (WellFormedDynamic(ev) /\ (ev[3] > OTP_VALIDITY_SECONDS \/ ev[3] < 0)) =>
      LET r == Verify(orders, guestCodes, ev, now)
      IN  /\ r.kind = "fail"
          /\ r.orders = orders
          /\ r.guestCodes = guestCodes

\* C3 witness: a scan from the future was rejected while its user owned an
\* order that a fresh scan at the same instant advances
C3_Witness ==
  /\ last.op = "verify"
  /\ last.kind = "fail"
  /\ last.msg = "future"
  /\ \E store \in VALID_SCANNERS : DynamicScan(Wojtek, 0, store).kind = "success"

\* a well-formed guest-code scan event presenting the given code
PresentsCode(ev, code) ==
  /\ ev[1] # NoUser
  /\ ev[2]
  /\ ev[4] \in VALID_SCANNERS
  /\ TypeOf(ev[5]) = "GUEST_PIN"
  /\ Trim(ev[5]) = code

\* C4: once a guest code was presented and its credential was found (the call
\* succeeded or failed on expiry), a later verification presenting the same
\* code does not succeed while no credential was issued in between.
C4_PresentedCodeIsSpent ==
  (last.op = "verify" /\ last.found # NoCred) =>
    \A ev \in ScanEvents :
      PresentsCode(ev, last.found.code) =>
        Verify(orders, guestCodes, ev, now).kind # "success"

\* C5: after a second credential is issued for an order, under a code other
\* than the first one's, presenting the first credential's code does not
\* succeed, also while the first credential's expiresAt is in the future.
C5_SupersededCodeFails ==
  (/\ last.op = "issue"
   /\ last.kind = "success"
   /\ last.found # NoCred
   /\ last.found.code # last.msg) =>
    \A ev \in ScanEvents :
      PresentsCode(ev, last.found.code) =>
        Verify(orders, guestCodes, ev, now).kind # "success"

\* C6: the credential store never holds two credentials for one orderId.
C6_OneCredentialPerOrder ==
  \A i, j \in DOMAIN guestCodes :
    guestCodes[i].orderId = guestCodes[j].orderId => i = j

\* C6 witness: a credential was issued for an order that already had one,
\* while another order's credential is in the store as well
C6_Witness ==
  /\ last.op = "issue"
  /\ last.kind = "success"
  /\ last.found # NoCred
  /\ Len(guestCodes) = 2

\* C7: of two presentations of one live guest code, handled one after the
\* other, only the first consumes it and advances the order: the second finds
\* no credential and does not succeed.
C7_SecondPresentationFindsNothing ==
  (/\ last.op = "verify"
   /\ last.type = "GUEST_PIN"
   /\ last.kind = "success"
   /\ last.found # NoCred) =>
    \A ev \in ScanEvents :
      PresentsCode(ev, last.found.code) =>
        LET r == Verify(orders, guestCodes, ev, now)
        IN  r.found = NoCred /\ r.kind # "success"

\* C8: after a dynamic-code scan picked an order up, the same scan repeated
\* by the same user at the same scanner does not advance that order again.
C8_RepeatedScanDoesNotAdvanceAgain ==
  (/\ last.op = "verify"
   /\ last.type = "DYNAMIC_CODE"
   /\ last.kind = "success"
   /\ last.ttype = "PICKUP") =>
    \A age \in FreshAges :
      LET r == DynamicScan(last.userId, age, last.scanner)
      IN  r.kind = "success" => r.orderId # last.orderId

\* a scan event whose inputs pass the input checks of validateTransaction
WellFormedInput(ev) ==
  /\ ev[1] # NoUser
  /\ ev[2]
  /\ ev[4] \in VALID_SCANNERS
  /\ (TypeOf(ev[5]) = "DYNAMIC_CODE" => IncludesAt(ev[1]))

\* C9: a verification whose inputs are well formed never raises an
\* exception: every validation failure (unknown, consumed or expired guest
\* code, stale or future timestamp, no orders, no matching order, unsupported
\* status) comes back as a result value with success = false.
C9_ValidationFailuresAreResults ==
  \A ev \in ScanEvents :
    WellFormedInput(ev) => Verify(orders, guestCodes, ev, now).kind # "throw"

\* C10: when a guest-code verification found the presented credential, the
\* store it leaves holds no credential of that order, and so not the one it
\* found, whatever the outcome of the call.
C10_FoundCredentialIsRemoved ==
  (last.op = "verify" /\ last.found # NoCred) =>
    \A i \in DOMAIN guestCodes : guestCodes[i].orderId # last.found.orderId

\* C10 witness: a verification found an expired credential, raised the
\* expiry error, and the store it left holds another order's credential only
C10_Witness ==
  /\ last.op = "verify"
  /\ last.kind = "throw"
  /\ last.found # NoCred
  /\ last.found.expiresAt < now - ExpiryTolerance
  /\ Len(guestCodes) = 1

\* the steps of the order lifecycle
LifecycleSteps ==
  {<<READY_FOR_PICKUP, PICKED_UP>>, <<PICKED_UP, RETURNED_PENDING_REFUND>>}

CoreCalls ==
  {<<ev[1], TsOf(ev, now), ev[4], ev[5]>> : ev \in ScanEvents}
  \cup {<<q[1], IF q[2] THEN now ELSE NoTs, q[3], q[4]>> : q \in HttpScans}

\* the value the lifecycle transition of some successful verification writes
\* to order i in the current store
TransitionWrites(i, order) ==
  \E c \in CoreCalls :
    LET r == validateTransaction(orders, guestCodes, c[1], c[2], c[3], c[4],
                                 now)
    IN  r.kind = "success" /\ r.orders[i] = order

Written == {i \in DOMAIN orders : orders'[i] # orders[i]}

\* C14: one call of validateTransaction writes to at most one order; when it
\* returns success it advanced exactly one order, the one it names, by one
\* lifecycle step, the new status is in the store, and transactionType is
\* PICKUP for READY_FOR_PICKUP -> PICKED_UP and RETURN for
\* PICKED_UP -> RETURNED_PENDING_REFUND.
C14_OneOrderOneStep ==
  [][last'.op = "verify" =>
       /\ Len(orders') = Len(orders)
       /\ Cardinality(Written) <= 1
       /\ last'.kind = "success" =>
            \E i \in DOMAIN orders :
              /\ Written = {i}
              /\ orders[i].orderId = last'.orderId
              /\ <<orders[i].status, orders'[i].status>> \in LifecycleSteps
              /\ last'.ttype = IF orders[i].status = READY_FOR_PICKUP
                               THEN "PICKUP" ELSE "RETURN"]_vars

\* C14 witness: a guest-code verification returned a RETURN success and the
\* order it names is RETURNED_PENDING_REFUND in the store
C14_Witness ==
  /\ last.op = "verify"
  /\ last.kind = "success"
  /\ last.type = "GUEST_PIN"
  /\ last.ttype = "RETURN"
  /\ \E i \in DOMAIN orders :
       /\ orders[i].orderId = last.orderId
       /\ orders[i].status = RETURNED_PENDING_REFUND

\* C15: a call of validateTransaction that returns failure or raises an error
\* leaves status and maxTime of every order as they were; a failed or
\* rejected dynamic-code call also leaves the credential store as it was.
C15_FailureChangesNoOrder ==
  [][(last'.op = "verify" /\ last'.kind \in {"fail", "throw"}) =>
       /\ orders' = orders
       /\ last'.type = "DYNAMIC_CODE" => guestCodes' = guestCodes]_vars

\* C15 witness: a guest-code verification found its credential and failed on
\* the elapsed return window of an order that is still PICKED_UP
C15_Witness ==
  /\ last.op = "verify"
  /\ last.kind = "fail"
  /\ last.msg = "window_expired"
  /\ last.found # NoCred
  /\ \E i \in DOMAIN orders :
       /\ orders[i].orderId = last.found.orderId
       /\ orders[i].status = PICKED_UP

\* C16: once now has passed the maxTime of a PICKED_UP order, no step moves
\* that order out of PICKED_UP (to RETURNED_PENDING_REFUND or elsewhere) or
\* changes its maxTime.
C16_ExpiredReturnStaysPickedUp ==
  [][\A i \in DOMAIN orders :
       (orders[i].status = PICKED_UP /\ Num(orders[i].maxTime) < now) =>
         orders'[i] = orders[i]]_vars

\* C16 witness: the credential of an order whose return window has elapsed
\* was presented at a scanner and the order is still PICKED_UP
C16_Witness ==
  /\ last.op = "verify"
  /\ last.type = "GUEST_PIN"
  /\ last.kind = "fail"
  /\ \E i \in DOMAIN orders :
       /\ orders[i].orderId = last.found.orderId
       /\ orders[i].status = PICKED_UP
       /\ Num(orders[i].maxTime) < now

\* what the caller of validateTransaction sees of an outcome
Visible(r) == <<r.kind, r.ttype, r.msg, r.orderId>>

\* C17: after a guest code was found and consumed, verifying that code gives
\* the caller the same outcome as verifying a code that was never issued, in
\* the same store and for the same scan.
C17_ConsumedLooksNeverIssued ==
  (last.op = "verify" /\ last.found # NoCred) =>
    \A u \in Users, store \in VALID_SCANNERS :
      Visible(validateTransaction(orders, guestCodes, u, now, store,
                                  last.found.code, now))
      = Visible(validateTransaction(orders, guestCodes, u, now, store,
                                    NeverIssued, now))

\* C18: two scan events that carry the same guest code of a stored
\* credential at the same scanner have the same outcome and leave the same
\* store, whatever userId and timestamp they present or omit.
C18_GuestPathIgnoresUserAndTimestamp ==
  \A e1, e2 \in ScanEvents :
    (/\ TypeOf(e1[5]) = "GUEST_PIN"
     /\ e1[4] \in VALID_SCANNERS
     /\ e1[4] = e2[4]
     /\ e1[5] = e2[5]
     /\ \E i \in DOMAIN guestCodes : guestCodes[i].code = Trim(e1[5])) =>
      Verify(orders, guestCodes, e1, now) = Verify(orders, guestCodes, e2, now)

\* the store of the order a response names
StoreOf(orderId) ==
  LET k == FindIndex({i \in DOMAIN orders : orders[i].orderId = orderId})
  IN  IF k = 0 THEN "" ELSE orders[k].storeId

\* C19: every successful PICKUP, on either path, happens at the scanner of
\* the store the picked-up order belongs to.
C19_PickupAtOrdersStore ==
  (last.op = "verify" /\ last.kind = "success" /\ last.ttype = "PICKUP") =>
    StoreOf(last.orderId) = last.scanner

\* C20: a call of generateGuestPin that fails leaves the credential store as
\* it was: nothing is stored and the order's earlier credential is kept.
C20_FailedIssuanceChangesNothing ==
  [][(last'.op = "issue" /\ last'.kind = "throw") =>
       guestCodes' = guestCodes]_vars

\* C20 witness: an issuance failed while the store held credentials of both
\* orders
C20_Witness ==
  /\ last.op = "issue"
  /\ last.kind = "throw"
  /\ CredentialOf(guestCodes, "ORD-1001") # NoCred
  /\ CredentialOf(guestCodes, "ORD-1002") # NoCred

\* the well-formed guest-code scan events
GuestScans == {ev \in ScanEvents : \E code \in Pins : PresentsCode(ev, code)}

\* C21: DB.cleanupExpiredCodes never changes the outcome of a later
\* guest-code verification: at every instant, each guest-code scan is
\* answered the same way (success or not, transaction type, order) whether or
\* not the housekeeping call ran just before it
C21_CleanupKeepsVerificationOutcome ==
  \A ev \in GuestScans :
    LET kept == Verify(orders, guestCodes, ev, now)
        swept == Verify(orders, cleanupExpiredCodes(guestCodes, now), ev, now)
    IN  /\ swept.kind = kept.kind
        /\ swept.ttype = kept.ttype
        /\ swept.orderId = kept.orderId

\* presentation instants around the expiry of a credential, as offsets from
\* its expiresAt: the expiry itself, the last accepted instant, the first
\* rejected one
BoundaryOffsets == {0, ExpiryTolerance, ExpiryTolerance + 1}

Eligible(userId, scannerStoreId) ==
  {i \in DOMAIN orders :
     /\ orders[i].userId = userId
     /\ \/ orders[i].status = READY_FOR_PICKUP
           /\ orders[i].storeId = scannerStoreId
        \/ orders[i].status = PICKED_UP
           /\ orders[i].maxTime # NULL
           /\ orders[i].maxTime > now}

\* C24: a successful dynamic-code verification advances the first eligible
\* order of the user in insertion order, names it in the result, and writes
\* to no other order, so no later eligible order is touched
C24_FirstEligibleOrderAdvances ==
  [][(/\ last'.op = "verify"
      /\ last'.type = "DYNAMIC_CODE"
      /\ last'.kind = "success")
     => LET e == Eligible(last'.userId, last'.scanner)
        IN  /\ e # {}
            /\ \E i \in e :
                 /\ \A j \in e : i <= j
                 /\ orders[i].orderId = last'.orderId
                 /\ Written = {i}]_vars

\* a dynamic-code scan advanced an order while a later order of the same user
\* was eligible too, and that order is still eligible
C24_Witness ==
  /\ last.op = "verify"
  /\ last.type = "DYNAMIC_CODE"
  /\ last.kind = "success"
  /\ \E i \in DOMAIN orders :
       /\ orders[i].orderId = last.orderId
       /\ \E j \in Eligible(last.userId, last.scanner) :
            j > i /\ orders[j].status = READY_FOR_PICKUP

\* C25: one presented (userId, timestamp) pair authorizes at most one
\* successful transaction: when a dynamic-code verification with a fresh pair
\* succeeded, a verification presenting the same pair again inside the
\* validity window, at any scanner, does not succeed
C25_OnePairOneTransaction ==
  \A userId \in Users, age \in FreshAges, s1 \in VALID_SCANNERS,
     s2 \in VALID_SCANNERS :
    LET ts == now - age
        first == validateTransaction(orders, guestCodes, userId, ts, s1,
                                     NoCode, now)
        second == validateTransaction(first.orders, first.guestCodes, userId,
                                      ts, s2, NoCode, now)
    IN  first.kind = "success" => second.kind # "success"

\* C26: a successful guest-code verification advances exactly the order the
\* presented credential was issued for: presenting the code of any stored
\* credential, at any scanner, never advances another order, also when
\* several credentials are live and two of them carry the same PIN
C26_GuestCodeAdvancesItsOwnOrder ==
  \A i \in DOMAIN guestCodes, s \in VALID_SCANNERS :
    LET c == guestCodes[i]
        r == validateTransaction(orders, guestCodes, c.userId, now, s, c.code,
                                 now)
    IN  r.kind = "success" =>
          /\ r.orderId = c.orderId
          /\ \A k \in DOMAIN orders :
               orders[k].orderId # c.orderId => r.orders[k] = orders[k]

\* C27: every credential in the store is bound to an existing order that its
\* userId owns and that is not READY_FOR_PICKUP, and no guest-code
\* verification returns a PICKUP
C27_CredentialsBoundToPickedUpOrders ==
  /\ \A i \in DOMAIN guestCodes :
       \E k \in DOMAIN orders :
         /\ orders[k].orderId = guestCodes[i].orderId
         /\ orders[k].userId = guestCodes[i].userId
         /\ orders[k].status # READY_FOR_PICKUP
  /\ ~(/\ last.op = "verify"
       /\ last.type = "GUEST_PIN"
       /\ last.kind = "success"
       /\ last.ttype = "PICKUP")

\* C28: the guest-code path and the dynamic-code path apply the same
\* return-window boundary, the instant now = maxTime included: presenting the
\* live credential of a PICKED_UP order returns that order exactly when the
\* order is eligible for a return by dynamic code, that is, exactly when
\* maxTime > now
C28_SameReturnBoundaryOnBothPaths ==
  \A i \in DOMAIN guestCodes, k \in DOMAIN orders :
    LET c == guestCodes[i]
        order == orders[k]
        v == validateGuestCode(guestCodes, c.code, now)
        r == validateTransaction(orders, guestCodes, c.userId, now,
                                 order.storeId, c.code, now)
        guestReturn == /\ r.kind = "success"
                       /\ r.ttype = "RETURN"
                       /\ r.orderId = order.orderId
    IN  (/\ order.orderId = c.orderId
         /\ order.userId = c.userId
         /\ order.status = PICKED_UP
         /\ v.kind = "ok"
         /\ v.entry = c)
        => /\ guestReturn = Matches(order, order.storeId, now)
           /\ guestReturn = (order.maxTime # NULL /\ order.maxTime > now)

\* C29: issuing a guest credential, whether the call succeeds or throws,
\* changes no field of any order
C29_IssuanceChangesNoOrder ==
  [][last'.op = "issue" => orders' = orders]_vars

\* a credential was issued for an order of the store, after a verification
\* had already changed the orders
C29_Witness ==
  /\ last.op = "issue"
  /\ last.kind = "success"
  /\ orders # SeedOrders
  /\ \E i \in DOMAIN guestCodes, k \in DOMAIN orders :
       /\ guestCodes[i].code = last.msg
       /\ guestCodes[i].orderId = orders[k].orderId

\* C30: a dynamic-code verification, successful or not, adds no credential
\* and removes none; a live credential bound to the order it advances is in
\* the store afterwards
C30_DynamicPathKeepsCredentials ==
  [][(last'.op = "verify" /\ last'.type = "DYNAMIC_CODE")
     => guestCodes' = guestCodes]_vars

\* a dynamic-code scan advanced an order whose live credential is still stored
C30_Witness ==
  /\ last.op = "verify"
  /\ last.type = "DYNAMIC_CODE"
  /\ last.kind = "success"
  /\ CredentialOf(guestCodes, last.orderId) # NoCred
  /\ CredentialOf(guestCodes, last.orderId).expiresAt >= now - ExpiryTolerance

\* the verification calls made for userId at this instant: fresh dynamic-code
\* scans of userId, and scans of userId presenting a code that a stored
\* credential of userId for an order of userId carries
CallsFor(userId) ==
  {ev \in ScanEvents :
     /\ ev[1] = userId
     /\ ev[2]
     /\ ev[3] = 0
     /\ ev[4] \in VALID_SCANNERS
     /\ \/ TypeOf(ev[5]) = "DYNAMIC_CODE"
        \/ \E i \in DOMAIN guestCodes, k \in DOMAIN orders :
             /\ guestCodes[i].code = Trim(ev[5])
             /\ guestCodes[i].userId = userId
             /\ orders[k].orderId = guestCodes[i].orderId
             /\ orders[k].userId = userId}

\* C31: two verification calls made for two different users commute: run in
\* either order at the same instant, each call returns the same result and
\* the store (orders and credentials) ends up the same
C31_CallsOfDifferentUsersCommute ==
  \A e1 \in CallsFor(Wojtek), e2 \in CallsFor(Anna) :
    LET a1 == Verify(orders, guestCodes, e1, now)
        a2 == Verify(a1.orders, a1.guestCodes, e2, now)
        b2 == Verify(orders, guestCodes, e2, now)
        b1 == Verify(b2.orders, b2.guestCodes, e1, now)
    IN  /\ Visible(a1) = Visible(b1)
        /\ Visible(a2) = Visible(b2)
        /\ a2.orders = b1.orders
        /\ a2.guestCodes = b1.guestCodes

\* C32: no two orders in the store share an orderId, and DB.createOrder with
\* an orderId that is already in the store is rejected and leaves the order
\* list as it was
C32_OrderIdsAreUnique ==
  /\ \A i, j \in DOMAIN orders :
       orders[i].orderId = orders[j].orderId => i = j
  /\ \A n \in NewOrders :
       (\E i \in DOMAIN orders : orders[i].orderId = n[2]) =>
         LET r == createOrder(orders, n[1], n[2], n[3], n[4], now)
         IN  ~r.ok /\ r.orders = orders

\* DB.createOrder threw in a store that already held ORD-1004, where every
\* new order offered carries an orderId of the store
C32_Witness ==
  /\ last.op = "create"
  /\ last.kind = "throw"
  /\ \E i \in DOMAIN orders : orders[i].orderId = "ORD-1004"
  /\ \A n \in NewOrders : \E i \in DOMAIN orders : orders[i].orderId = n[2]

\* C33: a guest-code verification whose live credential names a
\* (userId, orderId) pair that matches no order of the store returns a
\* failure result and changes no order
C33_UnmatchedCredentialFails ==
  [][(/\ last'.op = "verify"
      /\ last'.type = "GUEST_PIN"
      /\ last'.found # NoCred
      /\ last'.found.expiresAt >= now - ExpiryTolerance
      /\ ~\E i \in DOMAIN orders :
            /\ orders[i].orderId = last'.found.orderId
            /\ orders[i].userId = last'.found.userId)
     => /\ last'.kind = "fail"
        /\ orders' = orders]_vars

\* the credential of a user who does not own the order it names was
\* presented while the order was open, and the verification failed
C33_Witness ==
  /\ last.op = "verify"
  /\ last.type = "GUEST_PIN"
  /\ last.kind = "fail"
  /\ last.msg = "order_missing"
  /\ last.found # NoCred
  /\ \E i \in DOMAIN orders :
       /\ orders[i].orderId = last.found.orderId
       /\ orders[i].userId # last.found.userId
       /\ orders[i].status = PICKED_UP

\* arguments <<code, orderId, expiresAt - now, userId>> DB.addGuestCode must
\* reject: a code of three characters, no code, no orderId, no userId, an
\* expiresAt equal to now and one before now
RejectedCredentials ==
  {<<"123", "ORD-1001", GuestValidity, Wojtek>>,
   <<NoCode, "ORD-1001", GuestValidity, Wojtek>>,
   <<QrFull1, NoOrder, GuestValidity, Wojtek>>,
   <<QrFull1, "ORD-1001", GuestValidity, NoUser>>,
   <<QrFull1, "ORD-1001", 0, Wojtek>>,
   <<QrFull1, "ORD-1002", 0 - 1, Wojtek>>}

====
